---- MODULE Spec2Model ----
(***************************************************************************)
(* Subscription billing glue: the webhook endpoint (hookEventsFromStripe), *)
(* the payment-intent handler (handlePaymentIntent), the subscription      *)
(* record store (SubscriptionsDB) and the cancel / create / update         *)
(* operations on it.                                                       *)
(*                                                                         *)
(* Every asynchronous function is cut at its awaits: one action per        *)
(* synchronous segment, which Node runs without interleaving.  A store     *)
(* call (findOneAndUpdate) is one atomic operation of the document store;  *)
(* it is taken together with the segment that resumes from it, which reads *)
(* nothing but its result.                                                 *)
(*                                                                         *)
(* Spec is the whole system.  The properties are checked on parts of it:   *)
(* SpecHook (one delivery against a changing store), SpecCancel (cancel    *)
(* calls against a changing store), SpecDeliver (concurrent deliveries and *)
(* creates) and SpecRace (concurrent deliveries, cancel calls and updates  *)
(* on the records of one subscription id).                                 *)
(***************************************************************************)
EXTENDS Naturals, Sequences, FiniteSets

(***************************************************************************)
(* Bounds of the model.                                                    *)
(***************************************************************************)
MaxDeliveries == 2
MaxSubs == 2
MaxCancels == 2

Deliveries == 1..MaxDeliveries

(***************************************************************************)
(* Input universes.                                                        *)
(***************************************************************************)
SubscriptionIds == {"sub_1", "sub_2"}
PaymentIntentIds == {"pi_1", "pi_2"}
Users == {"a@x.com"}

\* JavaScript values of mixed type are tagged records.
Null == [t |-> "null"]
Undefined == [t |-> "undefined"]
Str(s) == [t |-> "string", v |-> s]
Obj(i) == [t |-> "object", id |-> i]

Customers == {Null, Str("cus_1"), Obj("cus_1")}

\* An event type is the sequence of its tokens: "payment_intent.succeeded"
\* is <<"payment_intent", "succeeded">>.
PAYMENT_FAILED == <<"payment_intent", "payment_failed">>
SUCCEEDED == <<"payment_intent", "succeeded">>
CREATED == <<"payment_intent", "created">>
INVOICE_PAID == <<"invoice", "paid">>
INVOICE_PI == <<"invoice", "payment_intent", "updated">>
CUSTOMER_CREATED == <<"customer", "created">>

\* String.prototype.includes on token sequences: needle occurs contiguously.
Includes(type, needle) ==
  \E i \in 0..(Len(type) - Len(needle)) :
    SubSeq(type, i + 1, i + Len(needle)) = needle

\* The status a payment intent carries in an event of each type.
StatusOf(type) ==
  IF type = SUCCEEDED THEN "succeeded"
  ELSE IF type = CREATED THEN "requires_confirmation"
  ELSE "requires_payment_method"

\* IPaymentIntent, event.data.object of a payment-intent event.
PaymentIntent(id, status, email, customer) ==
  [id |-> id, status |-> status, receipt_email |-> email, customer |-> customer]

\* Events of every subtype for the user, with each shape of customer on the
\* succeeded ones, and one event of every subtype for an unknown address.
PaymentIntentEvents ==
  { [type |-> SUCCEEDED,
     object |-> PaymentIntent(p, StatusOf(SUCCEEDED), "a@x.com", c)] :
      p \in PaymentIntentIds, c \in Customers }
  \cup
  { [type |-> ty, object |-> PaymentIntent(p, StatusOf(ty), "a@x.com", Str("cus_1"))] :
      ty \in {PAYMENT_FAILED, CREATED}, p \in PaymentIntentIds }
  \cup
  { [type |-> ty,
     object |-> PaymentIntent("pi_1", StatusOf(ty), "nobody@x.com", Str("cus_1"))] :
      ty \in {SUCCEEDED, PAYMENT_FAILED, CREATED} }
  \cup
  { [type |-> INVOICE_PI,
     object |-> PaymentIntent("pi_1", StatusOf(INVOICE_PI), "a@x.com", Str("cus_1"))] }

OtherEvents ==
  { [type |-> ty, object |-> Null] : ty \in {INVOICE_PAID, CUSTOMER_CREATED} }

Events == PaymentIntentEvents \cup OtherEvents

\* What stripe.webhooks.constructEvent does with a request: it throws on a
\* bad signature, otherwise it returns the parsed body.
Requests ==
  { [verify |-> "throws", event |-> Null] }
  \cup { [verify |-> "returns", event |-> ev] : ev \in Events }

(***************************************************************************)
(* The Subscription Record store (SubscriptionsDB): documents in insertion *)
(* order; the schema declares no unique index.                             *)
(***************************************************************************)
\* The paths of subscriptionSchema (its createdAt / updatedAt timestamps are
\* left out).
SchemaPaths ==
  {"subscriptionId", "subscriptionEnd", "subscriptionStart", "currency",
   "priceId", "recurrency", "customer", "latestInvoice", "userId", "status"}

\* latestInvoice as the create caller may hand it over: the bare correlation
\* key, or the provider's invoice with its payment intent expanded.
InvoiceKeyOnly(p) == [payment_intent |-> [id |-> p]]
InvoiceExpanded(p) ==
  [id |-> "in_1",
   payment_intent |-> [id |-> p, status |-> "requires_payment_method"]]

LatestInvoices ==
  { InvoiceKeyOnly(p) : p \in PaymentIntentIds } \cup { InvoiceExpanded("pi_1") }

\* ISubscriptionCreationResult
SubscriptionCreationResult(sid, li, status) ==
  [subscriptionId |-> sid, subscriptionEnd |-> 2, subscriptionStart |-> 1,
   currency |-> "usd", priceId |-> "price_pro", customer |-> Str("cus_1"),
   latestInvoice |-> li, userId |-> "u1", status |-> status]

\* Mongoose strict mode: an update keeps only the paths of the schema.
CastUpdate(patch) ==
  [f \in (DOMAIN patch) \cap SchemaPaths |-> patch[f]]

\* $set of the patch on one document.
ApplyUpdate(doc, patch) ==
  [f \in (DOMAIN doc) \cup (DOMAIN patch) |->
     IF f \in DOMAIN patch THEN patch[f] ELSE doc[f]]

\* A filter document matches a document that has each of its paths with an
\* equal value; an embedded document is equal when it is the same document.
Matches(filter, doc) ==
  \A f \in DOMAIN filter : f \in DOMAIN doc /\ doc[f] = filter[f]

\* Index of the first document matching the filter, 0 when there is none.
FirstIndex(store, filter) ==
  IF \E i \in 1..Len(store) : Matches(filter, store[i])
  THEN CHOOSE i \in 1..Len(store) :
         /\ Matches(filter, store[i])
         /\ \A j \in 1..(i - 1) : ~Matches(filter, store[j])
  ELSE 0

\* Mutant of FindOneAndUpdate: the matching document is removed.
FindOneAndDelete(store, filter, patch) ==
  LET i == FirstIndex(store, filter)
  IN IF i = 0 THEN store
     ELSE SubSeq(store, 1, i - 1) \o SubSeq(store, i + 1, Len(store))

\* Model.findOneAndUpdate(filter, update, {new: true}): the store afterwards.
FindOneAndUpdate(store, filter, patch) ==
  LET i == FirstIndex(store, filter)
  IN IF i = 0 THEN store
     ELSE [store EXCEPT ![i] = ApplyUpdate(store[i], CastUpdate(patch))]

\* The filter {subscriptionId: sid}.
BySubscriptionId(sid) == [subscriptionId |-> sid]

\* Mutant of ByPaymentIntentCorrelation: the filter is left empty.
ByAnyDocument(p) == << >>

\* The filter {latestInvoice: {payment_intent: {id: p}}}.
ByPaymentIntentCorrelation(p) ==
  [latestInvoice |-> [payment_intent |-> [id |-> p]]]

(***************************************************************************)
(* State.                                                                  *)
(***************************************************************************)
VARIABLES
  stripeInstance,   \* the module-level provider client: "null" or "client"
  webhookSecret,    \* process.env.STRIPE_WEBHOOK_SECRET is set
  systemEmailUser,  \* SYSTEM_EMAIL_CREDENTIALS?.user is set
  subs,             \* the documents of SubscriptionsDB, in insertion order
  hook,             \* per delivery: the hookEventsFromStripe invocation
  pih,              \* per delivery: the handlePaymentIntent invocation
  emails,           \* per delivery: sendEmailToUser calls, by recipient kind
  schedules,        \* per delivery: createSubscriptionSchedule calls
  logs,             \* per delivery: the kinds of log lines written
  writes,           \* per delivery: store updates that matched a document
  canc              \* the cancelSubscriptionOnStripe invocation

vars ==
  <<stripeInstance, webhookSecret, systemEmailUser, subs, hook, pih, emails,
    schedules, logs, writes, canc>>

IdleHook ==
  [pc |-> "idle", request |-> Null, verified |-> "no", response |-> "none",
   handler |-> "none"]

IdleHandler ==
  [pc |-> "idle", correlated |-> FALSE, updatedSubscription |-> Null,
   customerId |-> "", subscriptionId |-> Undefined, schedule |-> Null]

IdleCancel ==
  [pc |-> "idle", id |-> "", calls |-> 0, priorStatus |-> "", remote |-> 0,
   result |-> Undefined]

Init ==
  /\ stripeInstance \in {"null", "client"}
  /\ webhookSecret \in BOOLEAN
  /\ systemEmailUser \in BOOLEAN
  /\ subs = << >>
  /\ hook = [d \in Deliveries |-> IdleHook]
  /\ pih = [d \in Deliveries |-> IdleHandler]
  /\ emails = [d \in Deliveries |-> [user |-> 0, system |-> 0]]
  /\ schedules = [d \in Deliveries |-> 0]
  /\ logs = [d \in Deliveries |-> {}]
  /\ writes = [d \in Deliveries |-> 0]
  /\ canc = IdleCancel

\* initializeStripe() resolves to a client or to null.
InitializeStripeResults == {"null", "client"}

(***************************************************************************)
(* Store operations of the subscriptions-results service.                  *)
(***************************************************************************)
\* saveSubscriptionResult: SubscriptionsDB.create(subscription).
saveSubscriptionResult(sid, li) ==
  /\ Len(subs) < MaxSubs
  /\ subs' = Append(subs, SubscriptionCreationResult(sid, li, "incomplete"))
  /\ UNCHANGED <<stripeInstance, webhookSecret, systemEmailUser, hook, pih,
                 emails, schedules, logs, writes, canc>>

\* Mutant of CancelPatch: the cancel overwrites more than the status.
CancelPatchWiping == [status |-> "canceled", priceId |-> ""]

\* The update document of both cancel operations.
CancelPatch == [status |-> "canceled"]

\* cancelSubscriptionResult: findOneAndUpdate({subscriptionId}, {status: "canceled"}).
cancelSubscriptionResult(sid) ==
  /\ subs' = FindOneAndUpdate(subs, BySubscriptionId(sid), CancelPatch)
  /\ UNCHANGED <<stripeInstance, webhookSecret, systemEmailUser, hook, pih,
                 emails, schedules, logs, writes, canc>>

(***************************************************************************)
(* hookEventsFromStripe.                                                   *)
(***************************************************************************)
\* Mutant of SecretIsMissing: the secret is not checked.
SecretNeverMissing == FALSE

\* Lines 185-189: the signing secret is not configured.
SecretIsMissing == ~webhookSecret

\* Mutant of SignatureFailure: the rejected delivery is answered with success.
SignatureFailureAccepted(h, r) ==
  [h EXCEPT !.pc = "done", !.request = r, !.verified = "failed",
            !.response = "200"]

\* Lines 199-204: constructEvent threw; the error is logged and answered.
SignatureFailure(h, r) ==
  [h EXCEPT !.pc = "done", !.request = r, !.verified = "failed",
            !.response = "500"]

\* Mutant of Route: the two tests in the other order.
RouteInvoiceFirst(type) ==
  IF Includes(type, <<"invoice">>) THEN "invoice"
  ELSE IF Includes(type, <<"payment_intent">>) THEN "payment_intent"
  ELSE "none"

\* Lines 210-214: the handler an event type is routed to.
Route(type) ==
  IF Includes(type, <<"payment_intent">>) THEN "payment_intent"
  ELSE IF Includes(type, <<"invoice">>) THEN "invoice"
  ELSE "none"

\* Mutant of DispatchResponse: the answer waits for the handler.
DispatchResponseAwaited(handler) ==
  IF handler = "none" THEN "200" ELSE "none"

\* Line 216: res.send() right after the handler call, which is not awaited.
DispatchResponse(handler) == "200"

\* Lines 185-216, one synchronous segment: the secret, constructEvent, the
\* dispatch (the handler runs to its first await) and res.send().  Of
\* handleInvoice, whose module is not among these sources, the call alone is
\* recorded.
hookBody(d, r) ==
  IF SecretIsMissing
  THEN /\ hook' = [hook EXCEPT ![d] = [@ EXCEPT !.pc = "thrown", !.request = r]]
       /\ UNCHANGED <<pih, logs>>
  ELSE IF r.verify = "throws"
  THEN /\ hook' = [hook EXCEPT ![d] = SignatureFailure(@, r)]
       /\ logs' = [logs EXCEPT ![d] = @ \cup {"webhookError"}]
       /\ UNCHANGED pih
  ELSE LET handler == Route(r.event.type)
       IN /\ hook' = [hook EXCEPT ![d] = [@ EXCEPT !.pc = "done", !.request = r,
                                             !.verified = "ok",
                                             !.response = DispatchResponse(handler),
                                             !.handler = handler]]
          /\ pih' = IF handler = "payment_intent"
                    THEN [pih EXCEPT ![d].pc = "findUser"]
                    ELSE pih
          /\ UNCHANGED logs

\* A delivery arrives; with a client at hand the function runs through.
Receive(d, r) ==
  /\ hook[d].pc = "idle"
  /\ \A e \in 1..(d - 1) : hook[e].pc # "idle"
  /\ IF stripeInstance = "null"
     THEN /\ hook' = [hook EXCEPT ![d] = [@ EXCEPT !.pc = "awaitInit",
                                             !.request = r]]
          /\ UNCHANGED <<pih, logs>>
     ELSE hookBody(d, r)
  /\ UNCHANGED <<stripeInstance, webhookSecret, systemEmailUser, subs, emails,
                 schedules, writes, canc>>

\* Line 179 resumes: stripeInstance = await initializeStripe().
HookInitReturn(d, inst) ==
  /\ hook[d].pc = "awaitInit"
  /\ stripeInstance' = inst
  /\ IF inst = "null"
     THEN /\ hook' = [hook EXCEPT ![d] = [@ EXCEPT !.pc = "done",
                                             !.response = "500"]]
          /\ UNCHANGED <<pih, logs>>
     ELSE hookBody(d, hook[d].request)
  /\ UNCHANGED <<webhookSecret, systemEmailUser, subs, emails, schedules,
                 writes, canc>>

\* The caller of hookEventsFromStripe answers the error thrown at line 188.
SurfaceError(d) ==
  /\ hook[d].pc = "thrown"
  /\ hook' = [hook EXCEPT ![d] = [@ EXCEPT !.pc = "done", !.response = "500"]]
  /\ UNCHANGED <<stripeInstance, webhookSecret, systemEmailUser, subs, pih,
                 emails, schedules, logs, writes, canc>>

(***************************************************************************)
(* handlePaymentIntent.                                                    *)
(***************************************************************************)
\* Mutant of ReconcilePatch: only the status is written.
ReconcilePatchStatusOnly(paymentIntent) == [status |-> paymentIntent.status]

\* Mutant of ReconcilePatch: the status written is the one of a payment
\* intent that still waits for its payment, whatever the event says.
ReconcilePatchStaleStatus(paymentIntent) ==
  [latestInvoice |-> [payment_intent |-> paymentIntent],
   status |-> "requires_payment_method"]

\* Mutant of ReconcilePatch: the customer of the event is written as well.
ReconcilePatchAndCustomer(paymentIntent) ==
  [latestInvoice |-> [payment_intent |-> paymentIntent],
   status |-> paymentIntent.status,
   customer |-> paymentIntent.customer]

\* The update document of updateSubscriptionResultFromPaymentIntent.
ReconcilePatch(paymentIntent) ==
  [latestInvoice |-> [payment_intent |-> paymentIntent],
   status |-> paymentIntent.status]

\* updateSubscriptionResultFromPaymentIntent: the store afterwards.
updateSubscriptionResultFromPaymentIntent(store, paymentIntent) ==
  FindOneAndUpdate(store,
                   ByPaymentIntentCorrelation(paymentIntent.id),
                   ReconcilePatch(paymentIntent))

\* Lines 102-104: customer.id when it is set, else customer itself.
CustomerIdOf(customer) ==
  IF customer.t = "object" THEN customer.id ELSE customer.v

\* SubscriptionsDB.findOne({paymentIntentId}): the schema has no such path.
\* A Mongoose that strips unknown paths from filters (strictQuery) answers
\* with the first document, one that keeps them finds none.
FindOneByPaymentIntentId(store) ==
  {Undefined} \cup (IF Len(store) > 0 THEN {Str(store[1].subscriptionId)} ELSE {})

\* createSubscriptionSchedule resolves to a schedule or to null.
ScheduleResults == {Null, Obj("sub_sched_1")}

\* Lines 169-197 and 204: the operational mail, then the mail to the user.
SucceededMails(sent) ==
  [user |-> sent.user + 1,
   system |-> IF systemEmailUser THEN sent.system + 1 ELSE sent.system]

\* Mutant of FailedMails: the failure is reported to the operational mailbox
\* as well.
FailedMailsAndSystem(sent) == [user |-> sent.user + 1, system |-> sent.system + 1]

\* Lines 88-95 and 204: the mail to the user alone.
FailedMails(sent) == [sent EXCEPT !.user = @ + 1]

\* The invocation is over (returned, or rejected): its locals are gone.
\* correlated is kept: whether step 3 saw a record whose
\* latestInvoice.payment_intent.id is the payment intent's id.
Return(pc, correlated) ==
  [pc |-> pc, correlated |-> correlated, updatedSubscription |-> Null,
   customerId |-> "", subscriptionId |-> Undefined, schedule |-> Null]

\* Mutant of UserFound: the lookup result is not checked.
UserFoundAlways(email) == TRUE

\* Lines 22-26: UserDb.findOne({email}) finds a user.
UserFound(email) == email \in Users

\* Line 22 resumes with the user of paymentIntent.receipt_email, if any.
PiFindUser(d) ==
  /\ pih[d].pc = "findUser"
  /\ LET paymentIntent == hook[d].request.event.object
         userFound == UserFound(paymentIntent.receipt_email)
     IN pih' = [pih EXCEPT ![d] = IF userFound
                                  THEN [@ EXCEPT !.pc = "update"]
                                  ELSE Return("done", FALSE)]
  /\ UNCHANGED <<stripeInstance, webhookSecret, systemEmailUser, subs, hook,
                 emails, schedules, logs, writes, canc>>

\* Mutant of SwitchCase: no default case, the other subtypes are taken for a
\* failure.
SwitchCaseWithoutDefault(type) ==
  IF type = SUCCEEDED THEN "succeeded" ELSE "payment_failed"

\* Lines 43, 44, 97 and 200: the case of switch (event.type) that runs.
SwitchCase(type) ==
  IF type = PAYMENT_FAILED THEN "payment_failed"
  ELSE IF type = SUCCEEDED THEN "succeeded"
  ELSE "default"

\* Lines 35-109 and 200-207: the store update of step 3 and the segment that
\* follows it, up to the next await.
PiUpdate(d) ==
  /\ pih[d].pc = "update"
  /\ LET event == hook[d].request.event
         paymentIntent == event.object
         i == FirstIndex(subs, ByPaymentIntentCorrelation(paymentIntent.id))
         correlated == \E k \in 1..Len(subs) :
                         subs[k].latestInvoice.payment_intent.id = paymentIntent.id
     IN /\ subs' = updateSubscriptionResultFromPaymentIntent(subs, paymentIntent)
        /\ IF i = 0
           THEN /\ pih' = [pih EXCEPT ![d] = Return("done", correlated)]
                /\ logs' = [logs EXCEPT ![d] = @ \cup {"error"}]
                /\ UNCHANGED <<emails, writes>>
           ELSE /\ writes' = [writes EXCEPT ![d] = @ + 1]
                /\ IF SwitchCase(event.type) = "payment_failed"
                   THEN /\ pih' = [pih EXCEPT ![d] = Return("done", correlated)]
                        /\ logs' = [logs EXCEPT ![d] = @ \cup {"warn"}]
                        /\ emails' = [emails EXCEPT ![d] = FailedMails(@)]
                   ELSE IF SwitchCase(event.type) = "succeeded"
                   THEN /\ pih' = [pih EXCEPT ![d] =
                                     IF paymentIntent.customer = Null
                                     THEN Return("failed", correlated)
                                     ELSE [@ EXCEPT
                                             !.pc = "findSub",
                                             !.correlated = correlated,
                                             !.updatedSubscription = subs'[i],
                                             !.customerId =
                                               CustomerIdOf(paymentIntent.customer)]]
                        /\ logs' = [logs EXCEPT ![d] = @ \cup {"success"}]
                        /\ UNCHANGED emails
                   ELSE /\ pih' = [pih EXCEPT ![d] = Return("done", correlated)]
                        /\ logs' = [logs EXCEPT ![d] = @ \cup {"unhandled"}]
                        /\ UNCHANGED emails
  /\ UNCHANGED <<stripeInstance, webhookSecret, systemEmailUser, hook,
                 schedules, canc>>

\* Lines 106-114 (and 169-204 when no schedule is asked for).
PiFindSub(d, found) ==
  /\ pih[d].pc = "findSub"
  /\ found \in FindOneByPaymentIntentId(subs)
  /\ IF pih[d].customerId # "" /\ found # Undefined
     THEN /\ pih' = [pih EXCEPT ![d] = [@ EXCEPT !.pc = "schedule",
                                           !.subscriptionId = found]]
          /\ schedules' = [schedules EXCEPT ![d] = @ + 1]
          /\ UNCHANGED emails
     ELSE /\ pih' = [pih EXCEPT ![d] = Return("done", @.correlated)]
          /\ emails' = [emails EXCEPT ![d] = SucceededMails(@)]
          /\ UNCHANGED schedules
  /\ UNCHANGED <<stripeInstance, webhookSecret, systemEmailUser, subs, hook,
                 logs, writes, canc>>

\* Lines 111-120 (and 169-204 when no schedule came back).
PiSchedule(d, schedule) ==
  /\ pih[d].pc = "schedule"
  /\ IF schedule # Null
     THEN /\ pih' = [pih EXCEPT ![d] = [@ EXCEPT !.pc = "persist",
                                           !.schedule = schedule]]
          /\ UNCHANGED emails
     ELSE /\ pih' = [pih EXCEPT ![d] = Return("done", @.correlated)]
          /\ emails' = [emails EXCEPT ![d] = SucceededMails(@)]
  /\ UNCHANGED <<stripeInstance, webhookSecret, systemEmailUser, subs, hook,
                 schedules, logs, writes, canc>>

\* Lines 117-120 and 169-204: the schedule id is written, the mails go out.
PiPersist(d) ==
  /\ pih[d].pc = "persist"
  /\ LET sid == pih[d].updatedSubscription.subscriptionId
     IN subs' = FindOneAndUpdate(subs, BySubscriptionId(sid),
                                 [subscriptionScheduleId |-> pih[d].schedule.id])
  /\ writes' = [writes EXCEPT ![d] = @ + 1]
  /\ pih' = [pih EXCEPT ![d] = Return("done", @.correlated)]
  /\ emails' = [emails EXCEPT ![d] = SucceededMails(@)]
  /\ UNCHANGED <<stripeInstance, webhookSecret, systemEmailUser, hook,
                 schedules, logs, canc>>

\* An awaited call rejects, or the process dies, while the handler waits.
PiFail(d) ==
  /\ pih[d].pc \in {"findUser", "update", "findSub", "schedule", "persist"}
  /\ pih' = [pih EXCEPT ![d] = Return("failed", @.correlated)]
  /\ UNCHANGED <<stripeInstance, webhookSecret, systemEmailUser, subs, hook,
                 emails, schedules, logs, writes, canc>>

(***************************************************************************)
(* cancelSubscriptionOnStripe and updateSubscriptionResult.                *)
(***************************************************************************)
\* Lines 126-131: the call starts and runs to its first await.
CancelCall(sid) ==
  /\ canc.pc \in {"idle", "done"}
  /\ canc.calls < MaxCancels
  /\ canc' = [pc |-> IF stripeInstance = "null" THEN "awaitInit" ELSE "local",
              id |-> sid, calls |-> canc.calls + 1, priorStatus |-> "",
              remote |-> 0, result |-> Undefined]
  /\ UNCHANGED <<stripeInstance, webhookSecret, systemEmailUser, subs, hook,
                 pih, emails, schedules, logs, writes>>

\* Lines 127-129 resume: stripeInstance = await initializeStripe().
CancelInitReturn(inst) ==
  /\ canc.pc = "awaitInit"
  /\ stripeInstance' = inst
  /\ canc' = IF inst = "null"
             THEN [canc EXCEPT !.pc = "done", !.result = Null]
             ELSE [canc EXCEPT !.pc = "local"]
  /\ UNCHANGED <<webhookSecret, systemEmailUser, subs, hook, pih, emails,
                 schedules, logs, writes>>

\* Mutant of RemoteCancels: the remote cancel does not depend on the local one.
RemoteCancelsAlways(subscriptionUpdated) == 1

\* Lines 147-151: stripeInstance.subscriptions.del is called (its promise is
\* not awaited) when the local update found a record.
RemoteCancels(subscriptionUpdated) ==
  IF subscriptionUpdated = Null THEN 0 ELSE 1

\* Lines 131-153: the store sets status to canceled on the first document of
\* that subscriptionId; without one the call returns null, else the remote
\* cancel is started and the updated record returned.  priorStatus keeps the
\* status the document had before.
CancelLocal ==
  /\ canc.pc = "local"
  /\ LET i == FirstIndex(subs, BySubscriptionId(canc.id))
         subscriptionUpdated == IF i = 0 THEN Null ELSE subs'[i]
     IN /\ subs' = FindOneAndUpdate(subs,
                                    BySubscriptionId(canc.id),
                                    CancelPatch)
        /\ canc' = [canc EXCEPT !.pc = "done",
                                !.priorStatus = IF i = 0 THEN "" ELSE subs[i].status,
                                !.remote = @ + RemoteCancels(subscriptionUpdated),
                                !.result = subscriptionUpdated]
  /\ UNCHANGED <<stripeInstance, webhookSecret, systemEmailUser, hook, pih,
                 emails, schedules, logs, writes>>

\* updateSubscriptionResult: findOneAndUpdate({subscriptionId}, {...subscription}).
updateSubscriptionResult(subscription) ==
  /\ subs' = FindOneAndUpdate(subs,
                              BySubscriptionId(subscription.subscriptionId),
                              subscription)
  /\ UNCHANGED <<stripeInstance, webhookSecret, systemEmailUser, hook, pih,
                 emails, schedules, logs, writes, canc>>

\* The subscriptions a caller may hand to updateSubscriptionResult.
UpdateInputs ==
  { SubscriptionCreationResult(sid, InvoiceExpanded("pi_1"), "active") :
      sid \in SubscriptionIds }

(***************************************************************************)
(* The system.                                                             *)
(***************************************************************************)
\* The store operations of the subscriptions-results service.
StoreStep ==
  \/ \E sid \in SubscriptionIds, li \in LatestInvoices :
       saveSubscriptionResult(sid, li)
  \/ \E sid \in SubscriptionIds : cancelSubscriptionResult(sid)
  \/ \E subscription \in UpdateInputs : updateSubscriptionResult(subscription)

\* One webhook delivery: the endpoint and the handler it starts.
HookStep(d) ==
  \/ \E r \in Requests : Receive(d, r)
  \/ \E inst \in InitializeStripeResults : HookInitReturn(d, inst)
  \/ SurfaceError(d)
  \/ PiFindUser(d)
  \/ PiUpdate(d)
  \/ \E found \in {Undefined} \cup {Str(sid) : sid \in SubscriptionIds} :
       PiFindSub(d, found)
  \/ \E schedule \in ScheduleResults : PiSchedule(d, schedule)
  \/ PiPersist(d)
  \/ PiFail(d)

\* The cancel call.
CancelStep ==
  \/ \E sid \in SubscriptionIds : CancelCall(sid)
  \/ \E inst \in InitializeStripeResults : CancelInitReturn(inst)
  \/ CancelLocal

Next ==
  \/ StoreStep
  \/ \E d \in Deliveries : HookStep(d)
  \/ CancelStep

Spec == Init /\ [][Next]_vars

\* One webhook delivery against a store that create, update and cancel
\* operations change at any time.
HookNext == StoreStep \/ HookStep(1)

SpecHook == Init /\ [][HookNext]_vars

\* Cancel calls against a store that create, update and cancel operations
\* change at any time.
CancelNext == StoreStep \/ CancelStep

SpecCancel == Init /\ [][CancelNext]_vars

\* The process once it runs: the provider client is held, the signing secret
\* and the operational mailbox are configured.
ConfiguredInit ==
  /\ Init
  /\ stripeInstance = "client"
  /\ webhookSecret
  /\ systemEmailUser

\* Correctly signed payment-intent events of the user on one payment intent,
\* one of each subtype.
RaceRequests ==
  { [verify |-> "returns",
     event |-> [type |-> ty,
                object |-> PaymentIntent("pi_1", StatusOf(ty), "a@x.com",
                                         Str("cus_1"))]] :
      ty \in {SUCCEEDED, PAYMENT_FAILED, CREATED} }

\* The handler of delivery d, from its first await on.
HandlerStep(d) ==
  \/ PiFindUser(d)
  \/ PiUpdate(d)
  \/ \E found \in {Undefined} \cup {Str(sid) : sid \in SubscriptionIds} :
       PiFindSub(d, found)
  \/ \E schedule \in ScheduleResults : PiSchedule(d, schedule)
  \/ PiPersist(d)
  \/ PiFail(d)

\* Concurrent deliveries: every delivery runs its own handler invocation, the
\* segments of the invocations interleave at their awaits.  Records of the
\* payment intent are created at any time.
DeliverNext ==
  \/ \E sid \in SubscriptionIds, li \in {InvoiceKeyOnly("pi_1"), InvoiceExpanded("pi_1")} :
       saveSubscriptionResult(sid, li)
  \/ \E d \in Deliveries, r \in RaceRequests : Receive(d, r)
  \/ \E d \in Deliveries : HandlerStep(d)

SpecDeliver == ConfiguredInit /\ [][DeliverNext]_vars

\* Concurrent deliveries, cancel calls and updates on the records of one
\* subscription id, created with the bare correlation key.
RaceNext ==
  \/ saveSubscriptionResult("sub_1", InvoiceKeyOnly("pi_1"))
  \/ \E d \in Deliveries, r \in RaceRequests : Receive(d, r)
  \/ \E d \in Deliveries : HandlerStep(d)
  \/ CancelCall("sub_1")
  \/ CancelLocal
  \/ \E subscription \in {u \in UpdateInputs : u.subscriptionId = "sub_1"} :
       updateSubscriptionResult(subscription)

SpecRace == ConfiguredInit /\ [][RaceNext]_vars

(***************************************************************************)
(* Properties.                                                             *)
(***************************************************************************)
\* The payment intent of delivery d, once the payment-intent handler runs.
IntentOf(d) == hook[d].request.event.object

TypeOf(d) == hook[d].request.event.type

HandlesIntent(d) == hook[d].handler = "payment_intent"

NoMails == [user |-> 0, system |-> 0]

\* Some stored record carries payment intent id p in its latestInvoice.
Correlates(p) ==
  \E k \in 1..Len(subs) : subs[k].latestInvoice.payment_intent.id = p

\* C1: a completed payment_intent.succeeded delivery whose receipt email
\* matches a user and whose payment intent id is the
\* latestInvoice.payment_intent.id of a stored record (with the operational
\* mailbox configured) has updated a record and attempted exactly one
\* user-facing and one operational notification.
C1_SucceededReconcilesAndNotifies ==
  \A d \in Deliveries :
    ( /\ HandlesIntent(d)
      /\ TypeOf(d) = SUCCEEDED
      /\ UserFound(IntentOf(d).receipt_email)
      /\ pih[d].pc = "done"
      /\ pih[d].correlated
      /\ systemEmailUser )
    => /\ writes[d] >= 1
       /\ emails[d] = [user |-> 1, system |-> 1]

\* C2: a payment-intent delivery of any subtype whose receipt email matches
\* no user updates no record, asks for no schedule and sends no mail, and
\* no step of its handler changes the store.
C2_NoUserNoEffect ==
  /\ [](\A d \in Deliveries :
          (HandlesIntent(d) /\ IntentOf(d).receipt_email \notin Users)
          => /\ writes[d] = 0
             /\ schedules[d] = 0
             /\ emails[d] = NoMails
             /\ pih[d].pc \in {"findUser", "done", "failed"})
  /\ [][\A d \in Deliveries :
          ( /\ HandlesIntent(d)
            /\ IntentOf(d).receipt_email \notin Users
            /\ pih'[d] # pih[d] )
          => subs' = subs]_vars

\* C2 happens: the handler of a delivery without a user has returned while
\* the store holds a record its payment intent id would select.
C2_Witness ==
  \E d \in Deliveries :
    /\ HandlesIntent(d)
    /\ IntentOf(d).receipt_email \notin Users
    /\ pih[d].pc = "done"
    /\ \E k \in 1..Len(subs) :
         Matches(ByPaymentIntentCorrelation(IntentOf(d).id), subs[k])

\* C3: a payment-intent delivery with a user whose payment intent id is in
\* no stored record, once its handler has returned, has logged an error,
\* sent no mail, asked for no schedule, updated no record, and was answered
\* with 200.
C3_NoRecordLogsOnly ==
  \A d \in Deliveries :
    ( /\ HandlesIntent(d)
      /\ IntentOf(d).receipt_email \in Users
      /\ pih[d].pc = "done"
      /\ ~pih[d].correlated )
    => /\ "error" \in logs[d]
       /\ emails[d] = NoMails
       /\ schedules[d] = 0
       /\ writes[d] = 0
       /\ hook[d].response = "200"

\* C3 happens: such a handler has returned while the store holds a record of
\* another payment intent.
C3_Witness ==
  \E d \in Deliveries :
    /\ HandlesIntent(d)
    /\ IntentOf(d).receipt_email \in Users
    /\ pih[d].pc = "done"
    /\ ~pih[d].correlated
    /\ "error" \in logs[d]
    /\ Len(subs) > 0
    /\ ~Correlates(IntentOf(d).id)

\* C4: a delivery whose signature fails verification is answered with 500,
\* starts neither handler and updates no record.
C4_BadSignatureRejected ==
  \A d \in Deliveries :
    hook[d].verified = "failed"
    => /\ hook[d].response = "500"
       /\ hook[d].handler = "none"
       /\ pih[d].pc = "idle"
       /\ writes[d] = 0
       /\ emails[d] = NoMails

\* C4 happens: a delivery was rejected for its signature while records exist.
C4_Witness ==
  \E d \in Deliveries :
    /\ hook[d].verified = "failed"
    /\ hook[d].pc = "done"
    /\ Len(subs) > 0

\* Index of the first stored record of subscription id sid, 0 without one.
FirstOf(store, sid) ==
  FirstIndex(store, BySubscriptionId(sid))

HasToken(type, tok) == \E i \in 1..Len(type) : type[i] = tok

\* C6: a verified event starts the payment-intent handler when its type
\* names payment_intent (also next to invoice), else the invoice handler
\* when it names invoice, else no handler; it is answered with 200.
C6_RoutesToOneHandler ==
  \A d \in Deliveries :
    hook[d].verified = "ok"
    => /\ hook[d].response = "200"
       /\ hook[d].handler =
            ( IF HasToken(TypeOf(d), "payment_intent") THEN "payment_intent"
              ELSE IF HasToken(TypeOf(d), "invoice") THEN "invoice"
              ELSE "none" )
       /\ (pih[d].pc # "idle") <=> (hook[d].handler = "payment_intent")

\* C6 happens: an event naming both invoice and payment_intent went to the
\* payment-intent handler.
C6_Witness ==
  \E d \in Deliveries :
    /\ hook[d].verified = "ok"
    /\ HasToken(TypeOf(d), "invoice")
    /\ HasToken(TypeOf(d), "payment_intent")
    /\ hook[d].handler = "payment_intent"
    /\ hook[d].response = "200"

C8_CancelReturnsRecord ==
  [][(canc.pc # "done" /\ canc'.pc = "done")
     => IF FirstOf(subs, canc.id) = 0
        THEN canc'.result = Null /\ canc'.remote = 0
        ELSE /\ canc'.remote = 1
             /\ canc'.result = subs'[FirstOf(subs, canc.id)]
             /\ canc'.result.status = "canceled"]_vars

\* C8, amended: once the call holds a provider client it returns null and
\* starts no remote cancel when the id has no record, and with a record it
\* cancels it, starts exactly one remote cancel and returns the updated
\* record; a call that cannot obtain a provider client returns null, starts
\* no remote cancel and changes nothing.  A remote cancel is never started
\* without the local update of the same id.
C8_RemoteAfterLocal ==
  /\ [](canc.remote > 0
        => /\ canc.remote = 1
           /\ canc.result # Null
           /\ canc.result.subscriptionId = canc.id
           /\ canc.result.status = "canceled")
  /\ [][(canc.pc = "local" /\ canc'.pc = "done")
        => IF FirstOf(subs, canc.id) = 0
           THEN canc'.result = Null /\ canc'.remote = 0 /\ subs' = subs
           ELSE /\ canc'.remote = 1
                /\ canc'.result = subs'[FirstOf(subs, canc.id)]
                /\ canc'.result.status = "canceled"]_vars
  /\ [][(canc.pc = "awaitInit" /\ canc'.pc = "done")
        => (canc'.result = Null /\ canc'.remote = 0 /\ subs' = subs)]_vars

\* C8 happens: a call on an id with a record has returned the canceled
\* record after one remote cancel, in a store that holds that record.
C8_Witness ==
  /\ canc.pc = "done"
  /\ canc.remote = 1
  /\ canc.result # Null
  /\ \E k \in 1..Len(subs) : subs[k] = canc.result

\* C9: the 200 goes out with the dispatch: a verified delivery is answered
\* with 200 before any step of its handler, every handler step (record
\* update, error log, failure) finds the 200 sent, and it stays sent.
C9_ResponseDoesNotWait ==
  /\ [](\A d \in Deliveries : hook[d].verified = "ok" => hook[d].response = "200")
  /\ [][\A d \in Deliveries :
          (pih'[d] # pih[d] /\ pih[d].pc # "idle")
          => (hook[d].response = "200" /\ hook'[d].response = "200")]_vars
  /\ [][\A d \in Deliveries :
          hook[d].response = "200" => hook'[d].response = "200"]_vars

\* C9 happens: the 200 is sent while the record update of the handler is
\* still to come and will find its record.
C9_Witness ==
  \E d \in Deliveries :
    /\ hook[d].response = "200"
    /\ pih[d].pc = "update"
    /\ writes[d] = 0
    /\ \E k \in 1..Len(subs) :
         Matches(ByPaymentIntentCorrelation(IntentOf(d).id), subs[k])

\* C10: mails and schedule requests of a delivery come only after its
\* step-3 update found a record; that update writes status and
\* latestInvoice.payment_intent from the one event; a failure of the handler
\* changes neither the store nor the mails sent.
C10_NotifyOnlyAfterUpdate ==
  /\ [](\A d \in Deliveries :
          (emails[d] # NoMails \/ schedules[d] > 0) => writes[d] >= 1)
  /\ [][\A d \in Deliveries :
          (pih[d].pc = "update" /\ writes'[d] = writes[d] + 1)
          => LET i == FirstIndex(subs, ByPaymentIntentCorrelation(IntentOf(d).id))
             IN /\ i # 0
                /\ subs'[i].status = IntentOf(d).status
                /\ subs'[i].latestInvoice.payment_intent = IntentOf(d)]_vars
  /\ [][\A d \in Deliveries :
          (pih[d].pc # "failed" /\ pih'[d].pc = "failed")
          => /\ emails' = emails
             /\ (writes'[d] = writes[d] => subs' = subs)]_vars

\* C10 happens: a handler failed after its update, no mail was attempted and
\* the record holds the status and the payment intent of the event.
C10_Witness ==
  \E d \in Deliveries :
    /\ pih[d].pc = "failed"
    /\ writes[d] >= 1
    /\ emails[d] = NoMails
    /\ \E k \in 1..Len(subs) :
         /\ subs[k].status = IntentOf(d).status
         /\ subs[k].latestInvoice.payment_intent = IntentOf(d)

\* Index of the first stored record whose latestInvoice.payment_intent.id is
\* p, 0 without one.
FirstCorrelated(store, p) ==
  IF \E k \in 1..Len(store) : store[k].latestInvoice.payment_intent.id = p
  THEN CHOOSE k \in 1..Len(store) :
         /\ store[k].latestInvoice.payment_intent.id = p
         /\ \A j \in 1..(k - 1) : store[j].latestInvoice.payment_intent.id # p
  ELSE 0

\* The step-3 store update of delivery d executes in this step.
UpdateExecutes(d) ==
  pih[d].pc = "update" /\ logs'[d] # logs[d]

\* C11: last write wins.  Whatever the interleaving, each store update of
\* an operation on a record (the step-3 update of a delivery whose payment
\* intent id the record carries, a cancel or an update of its subscription
\* id) leaves the record with the status that operation writes, and nothing
\* else changes a status: after all operations the status is the one of the
\* update that executed last.
C11_LastWriteWins ==
  /\ [][\A d \in Deliveries :
          (UpdateExecutes(d) /\ FirstCorrelated(subs, IntentOf(d).id) # 0)
          => subs'[FirstCorrelated(subs, IntentOf(d).id)].status
               = IntentOf(d).status]_vars
  /\ [][(canc.pc = "local" /\ canc'.pc = "done" /\ FirstOf(subs, canc.id) # 0)
        => subs'[FirstOf(subs, canc.id)].status = "canceled"]_vars
  /\ [][\A subscription \in UpdateInputs :
          ( /\ updateSubscriptionResult(subscription)
            /\ FirstOf(subs, subscription.subscriptionId) # 0 )
          => subs'[FirstOf(subs, subscription.subscriptionId)].status
               = subscription.status]_vars
  /\ [][\A k \in 1..Len(subs) :
          subs'[k].status # subs[k].status
          => \/ \E d \in Deliveries : UpdateExecutes(d)
             \/ canc.pc = "local"
             \/ \E subscription \in UpdateInputs :
                  updateSubscriptionResult(subscription)]_vars

\* C12: at most one stored record per subscriptionId.
C12_OneRecordPerSubscriptionId ==
  \A i, j \in 1..Len(subs) :
    subs[i].subscriptionId = subs[j].subscriptionId => i = j

\* Deliveries d and e carry the same payment-intent event.
SameEvent(d, e) ==
  /\ d # e
  /\ HandlesIntent(d)
  /\ HandlesIntent(e)
  /\ hook[d].request = hook[e].request

\* C13: of two deliveries of the same payment-intent event whose payment
\* intent id a stored record carries, the second attempts the notifications
\* of the first again (once both handlers have returned, both have attempted
\* the same mails), and its step-3 update leaves the store as the first
\* delivery left it.
C13_RedeliveryRepeatsNotifications ==
  /\ [](\A d, e \in Deliveries :
          ( /\ SameEvent(d, e)
            /\ pih[d].pc = "done" /\ pih[d].correlated
            /\ pih[e].pc = "done" /\ pih[e].correlated )
          => emails[e] = emails[d])
  /\ [][\A d, e \in Deliveries :
          ( /\ SameEvent(d, e)
            /\ pih[d].pc = "done" /\ writes[d] >= 1
            /\ UpdateExecutes(e)
            /\ \A k \in 1..Len(subs) :
                 subs[k].latestInvoice.payment_intent.id = IntentOf(d).id
                 => /\ subs[k].latestInvoice.payment_intent = IntentOf(d)
                    /\ subs[k].status = IntentOf(d).status )
          => subs' = subs]_vars

SucceededBranchEnds(d) ==
  /\ pih[d].pc \in {"findSub", "schedule", "persist"}
  /\ pih'[d].pc = "done"

\* C15: on a succeeded event with a user and a reconciled record, a schedule
\* is requested only with a customer reference and a subscription id
\* resolved; a schedule that comes back has its id stored as
\* subscriptionScheduleId on the record reconciled in step 3; without a
\* schedule the store is not written; in either case the branch ends with
\* the user-facing and the operational notification attempted.
C15_SchedulePersisted ==
  /\ [][\A d \in Deliveries :
          schedules'[d] # schedules[d]
          => /\ TypeOf(d) = SUCCEEDED
             /\ writes[d] >= 1
             /\ pih'[d].customerId # ""
             /\ pih'[d].subscriptionId # Undefined]_vars
  /\ [][\A d \in Deliveries :
          (pih[d].pc = "persist" /\ pih'[d].pc = "done")
          => \E k \in 1..Len(subs') :
               /\ subs'[k].latestInvoice.payment_intent = IntentOf(d)
               /\ "subscriptionScheduleId" \in DOMAIN subs'[k]
               /\ subs'[k].subscriptionScheduleId = pih[d].schedule.id]_vars
  /\ [][\A d \in Deliveries :
          (pih[d].pc \in {"findSub", "schedule"} /\ pih'[d] # pih[d])
          => subs' = subs]_vars
  /\ [][\A d \in Deliveries :
          SucceededBranchEnds(d)
          => emails'[d] =
               [user |-> emails[d].user + 1,
                system |-> emails[d].system + (IF systemEmailUser THEN 1 ELSE 0)]]_vars

\* C16: a payment_failed delivery with a user and a record matched by its
\* step-3 update has attempted exactly one user-facing and no operational
\* notification, requested no schedule and written the store once, in step
\* 3; no other step of its handler changes the store.
C16_FailedNotifiesUserOnly ==
  /\ [](\A d \in Deliveries :
          (HandlesIntent(d) /\ TypeOf(d) = PAYMENT_FAILED /\ writes[d] >= 1)
          => /\ pih[d].pc = "done"
             /\ emails[d] = [user |-> 1, system |-> 0]
             /\ schedules[d] = 0
             /\ writes[d] = 1
             /\ logs[d] = {"warn"})
  /\ [][\A d \in Deliveries :
          ( /\ HandlesIntent(d)
            /\ TypeOf(d) = PAYMENT_FAILED
            /\ pih'[d] # pih[d]
            /\ ~UpdateExecutes(d) )
          => subs' = subs]_vars

\* C16 happens: a payment_failed delivery has reconciled its record and
\* mailed the user, whatever the operational mailbox.
C16_Witness ==
  \E d \in Deliveries :
    /\ HandlesIntent(d)
    /\ TypeOf(d) = PAYMENT_FAILED
    /\ UserFound(IntentOf(d).receipt_email)
    /\ systemEmailUser
    /\ pih[d].pc = "done"
    /\ emails[d] = [user |-> 1, system |-> 0]
    /\ \E k \in 1..Len(subs) :
         /\ subs[k].status = "requires_payment_method"
         /\ subs[k].latestInvoice = [payment_intent |-> IntentOf(d)]

\* C17: a payment-intent delivery of a subtype other than payment_failed and
\* succeeded attempts no notification and requests no schedule; with a user
\* and a record matched by its step-3 update it is logged as unhandled, and
\* nothing else is logged.
C17_OtherSubtypeUnhandled ==
  \A d \in Deliveries :
    (HandlesIntent(d) /\ TypeOf(d) \notin {PAYMENT_FAILED, SUCCEEDED})
    => /\ emails[d] = NoMails
       /\ schedules[d] = 0
       /\ ( writes[d] >= 1
            => /\ pih[d].pc = "done"
               /\ writes[d] = 1
               /\ logs[d] = {"unhandled"} )

\* C17 happens: a payment_intent.created delivery has reconciled its record
\* and returned.
C17_Witness ==
  \E d \in Deliveries :
    /\ HandlesIntent(d)
    /\ TypeOf(d) = CREATED
    /\ UserFound(IntentOf(d).receipt_email)
    /\ pih[d].pc = "done"
    /\ "unhandled" \in logs[d]
    /\ \E k \in 1..Len(subs) :
         /\ subs[k].status = StatusOf(CREATED)
         /\ subs[k].latestInvoice = [payment_intent |-> IntentOf(d)]

\* C18: no step removes a record: the store never gets shorter and every
\* record keeps its place and its subscriptionId, whatever create, update,
\* cancel and the payment-intent handler do; a cancel leaves the record of
\* the id in place, with status canceled.
C18_RecordsNeverRemoved ==
  /\ [][/\ Len(subs') >= Len(subs)
        /\ \A k \in 1..Len(subs) :
             subs'[k].subscriptionId = subs[k].subscriptionId]_vars
  /\ [][\A sid \in SubscriptionIds :
          (cancelSubscriptionResult(sid) /\ FirstOf(subs, sid) # 0)
          => /\ FirstOf(subs', sid) = FirstOf(subs, sid)
             /\ subs'[FirstOf(subs, sid)].status = "canceled"]_vars

\* C18 happens: after a create, a cancel and a reconciling delivery, both
\* records are in the store, one of them canceled.
C18_Witness ==
  /\ Len(subs) = 2
  /\ \E k \in 1..Len(subs) : subs[k].status = "canceled"
  /\ \E d \in Deliveries :
       /\ writes[d] >= 1
       /\ pih[d].pc = "done"
       /\ \E k \in 1..Len(subs) :
            subs[k].latestInvoice = [payment_intent |-> IntentOf(d)]

\* Record k was reconciled: its latestInvoice.payment_intent is the payment
\* intent of an event.
Reconciled(k) ==
  "receipt_email" \in DOMAIN subs[k].latestInvoice.payment_intent

\* C19: with concurrent deliveries and creates only, every reconciled record
\* holds the status of the payment intent it holds, and that payment intent
\* is the one of a delivery whose step-3 update has executed.
C19_StatusMatchesPaymentIntent ==
  \A k \in 1..Len(subs) :
    Reconciled(k)
    => /\ subs[k].status = subs[k].latestInvoice.payment_intent.status
       /\ \E d \in Deliveries :
            /\ writes[d] >= 1
            /\ subs[k].latestInvoice.payment_intent = IntentOf(d)

\* C19 happens: two deliveries carrying different statuses for one payment
\* intent have both executed their step-3 update while two records carried
\* its id; each record holds the status and the payment intent of one event.
C19_Witness ==
  /\ \A d \in Deliveries : pih[d].pc = "done" /\ writes[d] = 1
  /\ IntentOf(1).status # IntentOf(2).status
  /\ Len(subs) = 2
  /\ Reconciled(1)
  /\ Reconciled(2)
  /\ subs[1].status # subs[2].status

====
